---- MODULE Spec2Model ----
(***************************************************************************)
(* Workspace-isolated storage subsystem of fastapi-cloud-workspaces:       *)
(*   - StorageQuota.can_upload_file            (storage/models.py)         *)
(*   - StorageService upload / download / delete / signed URL              *)
(*                                             (storage/service.py)        *)
(*   - StorageCleanupService and run_cleanup_job (storage/cleanup.py)      *)
(*   - MinIOStorageDriver / S3StorageDriver delete, copy, move             *)
(*                                             (storage/drivers/)          *)
(*                                                                         *)
(* The cleanup service is modelled as cleanup.py is written and as its     *)
(* tests drive it: with a database session handed to it, and with          *)
(* record.file_path naming the record's object under storage_path.         *)
(* (models.py declares no file_path column on StorageFile and              *)
(* core/database.py's get_db_session is an async generator, not a context  *)
(* manager: the properties below are about the cleanup logic.)             *)
(*                                                                         *)
(* Time is counted in hours.  A backend object is identified by its        *)
(* file_key; the cleanup service addresses the same object through         *)
(* storage_path / record.file_path, which is modelled as the same key.     *)
(* A FileRecord's id and its file_key are both fresh (uuid4) per upload    *)
(* and are modelled by one number taken from the counter nextKey.          *)
(***************************************************************************)
EXTENDS Integers, Sequences, FiniteSets, TLC

\* ----------------------------------------------------------------- bounds
\* Uploads per client that reach the backend in one behaviour.
MaxKeys == 1
\* File sizes range over 1..MaxSize.
MaxSize == 2
\* The positive value a max_storage_bytes limit takes.
StorageLimit == 2
\* The positive value a max_files limit takes.
FilesLimit == 1
\* The positive value a max_file_size_bytes limit takes.
FileSizeLimit == 1

\* --------------------------------------------------------------- constants
\* find_orphaned_files(older_than_hours = 24); cleanup_orphaned_files and
\* cleanup_orphaned_database_records always use this default.
OrphanAgeHours == 24

\* None (an unset limit, an unset deleted_at).
Null == 0 - 1

Workspaces == {"wsA", "wsB"}
Clients == {"c1", "c2"}
\* File keys (uuid4, fresh per upload).
Keys == 1..(MaxKeys * Cardinality(Clients))
Sizes == 1..MaxSize

\* The instants the clock takes: 0, one hour later, and one hour past the
\* orphan age threshold (which is one day, the shortest retention): the ages
\* 1 (below the threshold), OrphanAgeHours (on it) and OrphanAgeHours + 1.
TimePoints == {0, 1, OrphanAgeHours + 1}
\* expires_at values an upload is called with: none, or hour 1.
ExpiryChoices == {Null, 1}
\* soft_deleted_days values a cleanup job is invoked with.
RetentionChoices == {1, 2}

MaxStorageChoices == {Null, 0, StorageLimit}
MaxFilesChoices == {Null, 0, FilesLimit}
MaxFileSizeChoices == {Null, 0, FileSizeLimit}

VARIABLES
    now,        \* the clock (hours)
    objects,    \* backend objects: set of [key, size, mtime]
    records,    \* storage_files rows: set of FileRecord
    quota,      \* storage_quotas rows: workspace -> row or NoQuota
    settings,   \* default quota limits of the configuration
    nextKey,    \* next fresh uuid
    clients,    \* the clients (request handlers) that run
    observe,    \* whether the outcomes of requests are recorded in result
    logFaults,  \* whether the access-log write of a request may fail
    xfer,       \* the bytes and content type last sent to and got from a driver
    pc,         \* client -> position inside its request handler
    op,         \* client -> locals of the request in flight
    result,     \* client -> outcome of its last finished request
    drv,        \* client -> driver calls made by its current / last request
    job,        \* the cleanup job: phase, arguments, candidates, report
    hist        \* history: what happened (used by the properties only)

vars == <<now, objects, records, quota, settings, nextKey, clients, observe,
          logFaults, xfer, pc, op, result, drv, job, hist>>

\* ------------------------------------------------------------------ helpers
RECURSIVE SumSize(_)
SumSize(S) ==
    IF S = {} THEN 0
    ELSE LET x == CHOOSE y \in S : TRUE IN x.size + SumSize(S \ {x})

ObjectAt(k) == CHOOSE o \in objects : o.key = k
\* st_mtime of the object under key k; the clock when the object is gone.
ObjectMtime(k) == IF \E o \in objects : o.key = k THEN ObjectAt(k).mtime ELSE now
HasObject(objs, k) == \E o \in objs : o.key = k

NoQuota == [exists |-> FALSE]

\* Variant: a limit is in force whenever it is set, 0 included.
IsNotNone(x) == x # Null

\* Python truthiness of an Optional[int] limit: None and 0 are false.
Truthy(x) == x # Null /\ x # 0

\* ------------------------------------------------------- StorageFile model
NewStorageFile(k, w, s, t) ==
    [id |-> k, file_key |-> k, workspace_id |-> w, size |-> s,
     status |-> "active", created_at |-> t, deleted_at |-> Null,
     expires_at |-> Null]

is_deleted(r) == r.deleted_at # Null \/ r.status = "deleted"

\* Variant: a row is expired from the instant expires_at on.
is_expired_from(r, t) == r.expires_at # Null /\ t >= r.expires_at

\* StorageFile.is_expired at time t: datetime.now(UTC) > self.expires_at.
is_expired(r, t) == r.expires_at # Null /\ t > r.expires_at

\* Variant: the first soft delete's time is kept.
soft_delete_once(r, t) ==
    [r EXCEPT !.deleted_at = IF @ = Null THEN t ELSE @, !.status = "deleted"]

\* StorageFile.soft_delete, lines 153-156.
soft_delete(r, t) == [r EXCEPT !.deleted_at = t, !.status = "deleted"]

\* ------------------------------------------------------ StorageQuota model
NewQuota(st) ==
    [exists |-> TRUE,
     max_storage_bytes |-> st.default_storage_quota_bytes,
     max_files |-> st.default_max_files,
     max_file_size_bytes |-> st.default_max_file_size_bytes,
     used_storage_bytes |-> 0,
     used_files |-> 0,
     enforce_quota |-> TRUE]

\* Variant: the storage check refuses an upload that reaches the limit.
can_upload_file_inclusive(q, file_size) ==
    IF ~q.enforce_quota
      THEN [allowed |-> TRUE, reason |-> "Quota enforcement disabled"]
    ELSE IF Truthy(q.max_file_size_bytes) /\ file_size > q.max_file_size_bytes
      THEN [allowed |-> FALSE, reason |-> "File size exceeds limit"]
    ELSE IF Truthy(q.max_storage_bytes)
            /\ (q.used_storage_bytes + file_size) >= q.max_storage_bytes
      THEN [allowed |-> FALSE, reason |-> "Storage quota exceeded"]
    ELSE IF Truthy(q.max_files) /\ q.used_files >= q.max_files
      THEN [allowed |-> FALSE, reason |-> "File count limit reached"]
    ELSE [allowed |-> TRUE, reason |-> "Upload allowed"]

\* Variant: the storage check comes before the file size check.
can_upload_file_bytes_first(q, file_size) ==
    IF ~q.enforce_quota
      THEN [allowed |-> TRUE, reason |-> "Quota enforcement disabled"]
    ELSE IF Truthy(q.max_storage_bytes)
            /\ (q.used_storage_bytes + file_size) > q.max_storage_bytes
      THEN [allowed |-> FALSE, reason |-> "Storage quota exceeded"]
    ELSE IF Truthy(q.max_file_size_bytes) /\ file_size > q.max_file_size_bytes
      THEN [allowed |-> FALSE, reason |-> "File size exceeds limit"]
    ELSE IF Truthy(q.max_files) /\ q.used_files >= q.max_files
      THEN [allowed |-> FALSE, reason |-> "File count limit reached"]
    ELSE [allowed |-> TRUE, reason |-> "Upload allowed"]

\* StorageQuota.can_upload_file, lines 235-260.  The reasons are the
\* messages without the numbers they embed.
can_upload_file(q, file_size) ==
    IF ~q.enforce_quota
      THEN [allowed |-> TRUE, reason |-> "Quota enforcement disabled"]
    ELSE IF Truthy(q.max_file_size_bytes) /\ file_size > q.max_file_size_bytes
      THEN [allowed |-> FALSE, reason |-> "File size exceeds limit"]
    ELSE IF Truthy(q.max_storage_bytes)
            /\ (q.used_storage_bytes + file_size) > q.max_storage_bytes
      THEN [allowed |-> FALSE, reason |-> "Storage quota exceeded"]
    ELSE IF Truthy(q.max_files) /\ q.used_files >= q.max_files
      THEN [allowed |-> FALSE, reason |-> "File count limit reached"]
    ELSE [allowed |-> TRUE, reason |-> "Upload allowed"]

\* The row get_or_create_quota returns for workspace w (created with the
\* configured defaults, and committed, when the workspace has none).
get_or_create_quota(w) ==
    IF quota[w].exists THEN quota[w] ELSE NewQuota(settings)

UsedBytes(w) == IF quota[w].exists THEN quota[w].used_storage_bytes ELSE 0
UsedFiles(w) == IF quota[w].exists THEN quota[w].used_files ELSE 0

\* ------------------------------------------------------- bytes in transit
\* What a caller of a driver has sent with its last upload_file and got from
\* its last download_file of the key that upload returned.
NoTransfer ==
    [state |-> "none", key |-> 0, sent_body |-> <<>>, sent_type |-> "",
     got_body |-> <<>>, got_type |-> ""]

\* ---------------------------------------------------------- client locals
IdleOp ==
    [ws |-> "wsA", size |-> 0, key |-> 0, dst |-> 0, q_bytes |-> 0, q_files |-> 0,
     expires_at |-> Null]

\* The outcome of a request: the HTTP status ("ok" for a normal return,
\* "error" for an exception that is no HTTPException), the detail, and the
\* request it answers (kind, workspace of the service, size or file id).
\* n flips with every response, so that two equal outcomes in a row differ.
NoResponse == [kind |-> "none", ws |-> "wsA", arg |-> 0, status |-> "none",
               reason |-> "", n |-> 0, log |-> "none"]

Response(c, kind, w, arg, status, reason) ==
    IF observe
      THEN [kind |-> kind, ws |-> w, arg |-> arg, status |-> status,
            reason |-> reason, n |-> 1 - result[c].n, log |-> "none"]
      ELSE NoResponse

\* A write by a client or a tick of the clock is activity since the last
\* cleanup job.
Activity(h) ==
    [h EXCEPT !.clean = FALSE, !.days = 0, !.work = FALSE,
              !.prev_deleted_at = Null]

\* The driver calls of a request, counted when outcomes are recorded.
DriverCalls(n) == IF observe THEN n ELSE 0

\* _log_access, lines 467-481: add the StorageAccessLog row and commit,
\* inside try / except Exception.  "written": the row is committed.
\* "raised": the constructor or the COMMIT raises; the session is as it was.
\* "rolled_back": the INSERT raises during the flush of the commit (the
\* connection is lost, the statement is refused, the file's row is gone
\* and the foreign key file_id fails); the Session rolls its transaction
\* back, which expires every row object loaded in it, and stays inactive
\* until rollback() is called, which _log_access does not do.
LogOutcomes ==
    IF logFaults THEN {"written", "raised", "rolled_back"} ELSE {"written"}

\* Whether the row objects of the request's session are expired when
\* _log_access has returned.
log_access(lg) == lg = "rolled_back"

\* The end of a request after its trailing _log_access: logger.info and
\* the return statement.  reads: they read a column of the storage_file
\* row object that is still attached to the session; on an expired object
\* the read has to reload the row, and the inactive session raises
\* PendingRollbackError.
Returned(c, kind, w, arg, lg, reads) ==
    LET resp == IF log_access(lg) /\ reads
                  THEN Response(c, kind, w, arg, "error", "PendingRollbackError")
                  ELSE Response(c, kind, w, arg, "ok", "")
    IN IF observe THEN [resp EXCEPT !.log = lg] ELSE resp

\* Variant: the row is looked up by id alone.
FileRowsAnyWorkspace(w, id) == {r \in records : r.id = id}

\* _get_file_or_404: the row with this id in the service's own workspace.
FileRows(w, id) == {r \in records : r.id = id /\ r.workspace_id = w}

\* ------------------------------------------------ StorageService.upload_file
\* Variant: the driver writes the object before the quota is checked.
UploadCheckAfterWrite(c, w, s) ==
    /\ c \in clients
    /\ pc[c] = "idle"
    /\ nextKey <= MaxKeys * Cardinality(clients)
    /\ LET q == IF quota[w].exists THEN quota[w] ELSE NewQuota(settings)
           v == can_upload_file(q, s)
       IN /\ quota' = [quota EXCEPT ![w] = q]
          /\ drv' = [drv EXCEPT ![c] = DriverCalls(1)]
          /\ objects' = objects \cup {[key |-> nextKey, size |-> s, mtime |-> now]}
          /\ nextKey' = nextKey + 1
          /\ IF v.allowed
               THEN /\ pc' = [pc EXCEPT ![c] = "up_written"]
                    /\ op' = [op EXCEPT ![c] =
                                 [ws |-> w, size |-> s, key |-> nextKey, dst |-> 0,
                                  q_bytes |-> q.used_storage_bytes,
                                  q_files |-> q.used_files,
                                  expires_at |-> Null]]
                    /\ result' = result
               ELSE /\ pc' = pc
                    /\ op' = op
                    /\ result' = [result EXCEPT ![c] =
                                     Response(c, "upload", w, s, "413", v.reason)]
    /\ hist' = Activity(hist)
    /\ UNCHANGED <<now, records, settings, clients, observe, logFaults, xfer, job>>

\* Lines 139-151: measure the size, get or create the quota row, check it;
\* a refusal raises HTTP 413 before the driver is touched.  e is the
\* expires_at argument of the call.
UploadRequest(c, w, s, e) ==
    /\ c \in clients
    /\ pc[c] = "idle"
    /\ LET q == get_or_create_quota(w)
           v == can_upload_file(q, s)
       IN /\ quota' = [quota EXCEPT ![w] = q]
          /\ drv' = [drv EXCEPT ![c] = DriverCalls(0)]
          /\ IF v.allowed
               THEN /\ pc' = [pc EXCEPT ![c] = "up_checked"]
                    /\ op' = [op EXCEPT ![c] =
                                 [ws |-> w, size |-> s, key |-> 0, dst |-> 0,
                                  q_bytes |-> q.used_storage_bytes,
                                  q_files |-> q.used_files,
                                  expires_at |-> e]]
                    /\ result' = result
               ELSE /\ pc' = pc
                    /\ op' = op
                    /\ result' = [result EXCEPT ![c] =
                                     Response(c, "upload", w, s, "413", v.reason)]
    /\ hist' = Activity(hist)
    /\ UNCHANGED <<now, objects, records, settings, nextKey, clients, observe, logFaults, xfer, job>>

\* upload_file called with expires_at left at its default, None.
UploadCheck(c, w, s) == UploadRequest(c, w, s, Null)

\* Variant: a failed write is retried once before anything is surfaced, and
\* the second attempt writes the object.
UploadWriteRetried(c, ok) ==
    /\ c \in clients
    /\ pc[c] = "up_checked"
    /\ nextKey <= MaxKeys * Cardinality(clients)
    /\ drv' = [drv EXCEPT ![c] = DriverCalls(drv[c] + (IF ok THEN 1 ELSE 2))]
    /\ objects' = objects \cup
           {[key |-> nextKey, size |-> op[c].size, mtime |-> now]}
    /\ nextKey' = nextKey + 1
    /\ pc' = [pc EXCEPT ![c] = "up_written"]
    /\ op' = [op EXCEPT ![c].key = nextKey]
    /\ result' = result
    /\ hist' = Activity(hist)
    /\ UNCHANGED <<now, records, quota, settings, clients, observe, logFaults, xfer, job>>

\* Lines 153-160: driver.upload_file writes the object under a fresh key, or
\* raises (S3Error / ClientError) and upload_file raises with it.
UploadWrite(c, ok) ==
    /\ c \in clients
    /\ pc[c] = "up_checked"
    /\ drv' = [drv EXCEPT ![c] = DriverCalls(drv[c] + 1)]
    /\ IF ok
         THEN /\ nextKey <= MaxKeys * Cardinality(clients)
              /\ objects' = objects \cup
                     {[key |-> nextKey, size |-> op[c].size, mtime |-> now]}
              /\ nextKey' = nextKey + 1
              /\ pc' = [pc EXCEPT ![c] = "up_written"]
              /\ op' = [op EXCEPT ![c].key = nextKey]
              /\ result' = result
         ELSE /\ pc' = [pc EXCEPT ![c] = "idle"]
              /\ op' = [op EXCEPT ![c] = IdleOp]
              /\ result' = [result EXCEPT ![c] =
                     Response(c, "upload", op[c].ws, op[c].size, "error",
                              "backend upload failed")]
              /\ UNCHANGED <<objects, nextKey>>
    /\ hist' = Activity(hist)
    /\ UNCHANGED <<now, records, quota, settings, clients, observe, logFaults, xfer, job>>

\* The quota row after upload_file's "quota.used_storage_bytes += file_size;
\* quota.used_files += 1" on the row object loaded at the check (q_bytes,
\* q_files) and the commit, which writes the two changed columns.
UploadQuotaCommit(row, o) ==
    [row EXCEPT !.used_storage_bytes = o.q_bytes + o.size,
                !.used_files = o.q_files + 1]

\* Lines 162-211: add the StorageFile row, update the quota, commit; then
\* log the access and build the FileResponse from the row object.
\* ok = FALSE: the commit raises; the object written stays in the backend.
UploadCommit(c, ok) ==
    /\ c \in clients
    /\ pc[c] = "up_written"
    /\ pc' = [pc EXCEPT ![c] = "idle"]
    /\ op' = [op EXCEPT ![c] = IdleOp]
    /\ IF ok
         THEN /\ records' = records \cup
                     {[NewStorageFile(op[c].key, op[c].ws, op[c].size, now)
                          EXCEPT !.expires_at = op[c].expires_at]}
              /\ quota' = [quota EXCEPT ![op[c].ws] =
                               UploadQuotaCommit(quota[op[c].ws], op[c])]
              /\ \E lg \in LogOutcomes :
                   result' = [result EXCEPT ![c] =
                     Returned(c, "upload", op[c].ws, op[c].size, lg, TRUE)]
              /\ hist' = [Activity(hist) EXCEPT !.late =
                     hist.late \/ (now - ObjectMtime(op[c].key) >= OrphanAgeHours)]
         ELSE /\ result' = [result EXCEPT ![c] =
                     Response(c, "upload", op[c].ws, op[c].size, "error",
                              "commit failed")]
              /\ hist' = Activity(hist)
              /\ UNCHANGED <<records, quota>>
    /\ UNCHANGED <<now, objects, settings, nextKey, clients, observe, logFaults, xfer, drv, job>>

\* ------------------------------------------------ StorageService.delete_file
\* Lines 256-300.  drvOk = FALSE: the driver's delete_file caught the
\* backend's error and returned False, which delete_file ignores.
\* ok = FALSE: the commit of line 287 raises; what the driver removed stays
\* removed, the row and the quota stay as they were.  After the commit the
\* access is logged and line 295 reads storage_file.original_filename: the
\* object of a soft-deleted row is still attached to the session, that of
\* a hard-deleted row is detached by the commit and keeps what it loaded.
QuotaAfterHardDelete(row, r) ==
    [row EXCEPT !.used_storage_bytes = row.used_storage_bytes - r.size,
                !.used_files = row.used_files - 1]

DeleteFile(c, w, id, hard, drvOk, ok) ==
    /\ c \in clients
    /\ pc[c] = "idle"
    /\ IF FileRows(w, id) = {}
         THEN /\ result' = [result EXCEPT ![c] =
                     Response(c, "delete", w, id, "404", "File not found")]
              /\ drv' = [drv EXCEPT ![c] = DriverCalls(0)]
              /\ UNCHANGED <<objects, records, quota, hist>>
         ELSE LET r == CHOOSE x \in FileRows(w, id) : TRUE
              IN /\ objects' = IF hard /\ drvOk
                                  THEN {o \in objects : o.key # r.file_key}
                                  ELSE objects
                 /\ drv' = [drv EXCEPT ![c] = DriverCalls(IF hard THEN 1 ELSE 0)]
                 /\ quota' = IF hard /\ ok
                               THEN [quota EXCEPT ![w] =
                                  QuotaAfterHardDelete(get_or_create_quota(w), r)]
                               ELSE quota
                 /\ records' = IF ~ok THEN records
                               ELSE IF hard THEN records \ {r}
                               ELSE (records \ {r}) \cup {soft_delete(r, now)}
                 /\ \E lg \in LogOutcomes :
                      result' = [result EXCEPT ![c] =
                        IF ok THEN Returned(c, "delete", w, id, lg, ~hard)
                        ELSE Response(c, "delete", w, id, "error", "commit failed")]
                 /\ hist' = [Activity(hist) EXCEPT !.prev_deleted_at =
                                 IF observe /\ ~hard /\ ok THEN r.deleted_at
                                 ELSE Null]
    /\ UNCHANGED <<now, settings, nextKey, clients, observe, logFaults, xfer, pc, op, job>>

\* ---------------------------------------------- StorageService.download_file
\* Variant: the expiry of the row is tested before its deletion.
DownloadFileExpiryFirst(c, w, id) ==
    /\ c \in clients
    /\ pc[c] = "idle"
    /\ IF FileRows(w, id) = {}
         THEN /\ result' = [result EXCEPT ![c] =
                     Response(c, "download", w, id, "404", "File not found")]
              /\ drv' = [drv EXCEPT ![c] = DriverCalls(0)]
         ELSE LET r == CHOOSE x \in FileRows(w, id) : TRUE
              IN IF is_expired(r, now)
                   THEN /\ result' = [result EXCEPT ![c] =
                              Response(c, "download", w, id, "410",
                                       "File has expired")]
                        /\ drv' = [drv EXCEPT ![c] = DriverCalls(0)]
                   ELSE IF is_deleted(r)
                   THEN /\ result' = [result EXCEPT ![c] =
                              Response(c, "download", w, id, "404",
                                       "File not found or has been deleted")]
                        /\ drv' = [drv EXCEPT ![c] = DriverCalls(0)]
                   ELSE /\ \E lg \in LogOutcomes :
                             result' = [result EXCEPT ![c] =
                              IF HasObject(objects, r.file_key)
                                THEN Returned(c, "download", w, id, lg, TRUE)
                                ELSE Response(c, "download", w, id, "error",
                                              "backend object missing")]
                        /\ drv' = [drv EXCEPT ![c] = DriverCalls(1)]
    /\ UNCHANGED <<now, objects, records, quota, settings, nextKey, clients, observe, logFaults, xfer,
                   pc, op, job, hist>>

\* Lines 213-254: the row, the deleted test (404), the expired test (410),
\* then the driver's download and the access log.
DownloadFile(c, w, id) ==
    /\ c \in clients
    /\ pc[c] = "idle"
    /\ IF FileRows(w, id) = {}
         THEN /\ result' = [result EXCEPT ![c] =
                     Response(c, "download", w, id, "404", "File not found")]
              /\ drv' = [drv EXCEPT ![c] = DriverCalls(0)]
         ELSE LET r == CHOOSE x \in FileRows(w, id) : TRUE
              IN IF is_deleted(r)
                   THEN /\ result' = [result EXCEPT ![c] =
                              Response(c, "download", w, id, "404",
                                       "File not found or has been deleted")]
                        /\ drv' = [drv EXCEPT ![c] = DriverCalls(0)]
                   ELSE IF is_expired(r, now)
                   THEN /\ result' = [result EXCEPT ![c] =
                              Response(c, "download", w, id, "410",
                                       "File has expired")]
                        /\ drv' = [drv EXCEPT ![c] = DriverCalls(0)]
                   ELSE /\ \E lg \in LogOutcomes :
                             result' = [result EXCEPT ![c] =
                              IF HasObject(objects, r.file_key)
                                THEN Returned(c, "download", w, id, lg, TRUE)
                                ELSE Response(c, "download", w, id, "error",
                                              "backend object missing")]
                        /\ drv' = [drv EXCEPT ![c] = DriverCalls(1)]
    /\ UNCHANGED <<now, objects, records, quota, settings, nextKey, clients, observe, logFaults, xfer,
                   pc, op, job, hist>>

\* ---------------------------------------- StorageService.generate_signed_url
\* Lines 373-421.  Nothing after the access log reads the row object.
GenerateSignedUrl(c, w, id) ==
    /\ c \in clients
    /\ pc[c] = "idle"
    /\ IF FileRows(w, id) = {}
         THEN /\ result' = [result EXCEPT ![c] =
                     Response(c, "signed_url", w, id, "404", "File not found")]
              /\ drv' = [drv EXCEPT ![c] = DriverCalls(0)]
         ELSE LET r == CHOOSE x \in FileRows(w, id) : TRUE
              IN IF is_deleted(r)
                   THEN /\ result' = [result EXCEPT ![c] =
                              Response(c, "signed_url", w, id, "404",
                                       "File not found or has been deleted")]
                        /\ drv' = [drv EXCEPT ![c] = DriverCalls(0)]
                   ELSE /\ \E lg \in LogOutcomes :
                             result' = [result EXCEPT ![c] =
                              Returned(c, "signed_url", w, id, lg, FALSE)]
                        /\ drv' = [drv EXCEPT ![c] = DriverCalls(1)]
    /\ UNCHANGED <<now, objects, records, quota, settings, nextKey, clients, observe, logFaults, xfer,
                   pc, op, job, hist>>

\* ------------------------------------------------------ the storage drivers
\* MinIOStorageDriver and S3StorageDriver (the same code over minio and
\* boto3).  A call of the backend either takes effect and returns, or
\* raises with no effect: the backend's error (S3Error / ClientError), or
\* another exception (the endpoint is unreachable).
BackendOutcomes == {"ok", "backend_error", "raised"}

\* remove_object / delete_object on the bucket: the object under key k is
\* gone afterwards.  The backend answers a DELETE of a key that does not
\* exist like one of a key that does: with success.
RemoveObject(objs, k) == {o \in objs : o.key # k}

\* The outcome of copy_object from src to dst: the backend refuses a source
\* that does not exist (NoSuchKey) and a copy of an object onto itself with
\* no change of metadata (InvalidRequest).
CopyOutcome(objs, src, dst, out) ==
    IF out = "ok" /\ (~HasObject(objs, src) \/ src = dst)
      THEN "backend_error"
      ELSE out

\* Variant: the backend renames the object.
RenameObject(objs, src, dst, t) ==
    LET o == CHOOSE x \in objs : x.key = src
    IN {x \in objs : x.key # dst /\ x.key # src}
         \cup {[key |-> dst, size |-> o.size, mtime |-> t]}

\* copy_object: dst holds a copy of the object under src, in place of
\* whatever it held; src stays.
CopyObject(objs, src, dst, t) ==
    LET o == CHOOSE x \in objs : x.key = src
    IN {x \in objs : x.key # dst} \cup {[key |-> dst, size |-> o.size, mtime |-> t]}

\* The value of a driver call: the boolean it returns, with the error it
\* logged before returning False, or the exception that leaves it.
DriverResult(c, kind, k, out, logged) ==
    IF out = "raised" THEN Response(c, kind, "wsA", k, "error", "")
    ELSE IF out = "ok" THEN Response(c, kind, "wsA", k, "true", "")
    ELSE Response(c, kind, "wsA", k, "false", logged)

\* delete_file, minio_driver.py 184-197 (s3_driver.py 188-204): True when
\* the backend call returns, False when it raises the backend's error; any
\* other exception leaves the method.
DriverDeleteFile(c, k, out) ==
    /\ c \in clients
    /\ pc[c] = "idle"
    /\ objects' = IF out = "ok" THEN RemoveObject(objects, k) ELSE objects
    /\ result' = [result EXCEPT ![c] =
                     DriverResult(c, "driver_delete", k, out,
                                  "Failed to delete file")]
    /\ UNCHANGED <<now, records, quota, settings, nextKey, clients, observe,
                   logFaults, xfer, pc, op, drv, job, hist>>

\* copy_file, minio_driver.py 326-350 (s3_driver.py 345-367).
CopyFile(c, src, dst, out) ==
    LET res == CopyOutcome(objects, src, dst, out)
    IN /\ c \in clients
       /\ pc[c] = "idle"
       /\ objects' = IF res = "ok" THEN CopyObject(objects, src, dst, now)
                     ELSE objects
       /\ result' = [result EXCEPT ![c] =
                        DriverResult(c, "copy", src, res, "Failed to copy file")]
       /\ UNCHANGED <<now, records, quota, settings, nextKey, clients, observe,
                      logFaults, xfer, pc, op, drv, job, hist>>

\* move_file, minio_driver.py 352-362 (s3_driver.py 369-379), first step:
\* copy_file.  When it returns False, or raises into move_file's except
\* Exception, move_file returns False.
MoveFileCopy(c, src, dst, out) ==
    LET res == CopyOutcome(objects, src, dst, out)
    IN /\ c \in clients
       /\ pc[c] = "idle"
       /\ IF res = "ok"
            THEN /\ objects' = CopyObject(objects, src, dst, now)
                 /\ pc' = [pc EXCEPT ![c] = "mv_copied"]
                 /\ op' = [op EXCEPT ![c] = [IdleOp EXCEPT !.key = src, !.dst = dst]]
                 /\ result' = result
            ELSE /\ result' = [result EXCEPT ![c] =
                                  DriverResult(c, "move", src, "backend_error",
                                      IF res = "raised" THEN "Failed to move file"
                                      ELSE "Failed to copy file")]
                 /\ UNCHANGED <<objects, pc, op>>
       /\ UNCHANGED <<now, records, quota, settings, nextKey, clients, observe,
                      logFaults, xfer, drv, job, hist>>

\* move_file, second step: return delete_file(source_key); an exception
\* that leaves delete_file is caught by move_file, which returns False.
MoveFileDelete(c, out) ==
    /\ c \in clients
    /\ pc[c] = "mv_copied"
    /\ objects' = IF out = "ok" THEN RemoveObject(objects, op[c].key) ELSE objects
    /\ pc' = [pc EXCEPT ![c] = "idle"]
    /\ op' = [op EXCEPT ![c] = IdleOp]
    /\ result' = [result EXCEPT ![c] =
                     DriverResult(c, "move", op[c].key,
                                  IF out = "ok" THEN "ok" ELSE "backend_error",
                                  IF out = "raised" THEN "Failed to move file"
                                  ELSE "Failed to delete file")]
    /\ UNCHANGED <<now, records, quota, settings, nextKey, clients, observe,
                   logFaults, xfer, drv, job, hist>>

\* The contents a caller uploads: byte strings up to MaxSize bytes, the
\* empty one included, and content types, the empty string included.
ByteChoices == {0, 255}
BodyChoices == UNION {[1..n -> ByteChoices] : n \in 0..MaxSize}
DefaultContentType == "application/octet-stream"
ContentTypeChoices == {"", "text/plain", DefaultContentType}

\* Variant: the stream stays where measuring its size left it.
seek_end(stream) == [stream EXCEPT !.pos = Len(stream.data)]

\* A BinaryIO: its bytes and its position.  service.py 140-142 measures
\* the size (seek to the end, tell) and seeks back to the start before the
\* stream is handed to the driver.
seek_start(stream) == [stream EXCEPT !.pos = 0]

\* file_data.read(), minio_driver.py 100: the bytes from the position on.
read(stream) == SubSeq(stream.data, stream.pos + 1, Len(stream.data))

\* The Content-Type put_object stores with the object: the client sends
\* the default in place of an empty content type.
StoredContentType(content_type) ==
    IF content_type = "" THEN DefaultContentType ELSE content_type

\* FileMetadata.content_type of download_file, minio_driver.py 170:
\* stat.content_type or "application/octet-stream".
DownloadedContentType(content_type) ==
    IF content_type = "" THEN DefaultContentType ELSE content_type

\* upload_file, minio_driver.py 88-145 (s3_driver.py 96-151), on the stream
\* as the service hands it over: the bytes read are stored under a fresh
\* key with the content type, and the key is returned; or the backend's
\* error is raised again.
DriverUploadFile(c, data, pos, content_type, out) ==
    /\ c \in clients
    /\ pc[c] = "idle"
    /\ nextKey <= MaxKeys * Cardinality(clients)
    /\ pos \in 0..Len(data)
    /\ LET file_content == read(seek_start([data |-> data, pos |-> pos]))
       IN IF out = "ok"
            THEN /\ objects' = objects \cup
                        {[key |-> nextKey, size |-> Len(file_content), mtime |-> now,
                          body |-> file_content,
                          content_type |-> StoredContentType(content_type)]}
                 /\ nextKey' = nextKey + 1
                 /\ xfer' = [NoTransfer EXCEPT !.state = "uploaded",
                                               !.key = nextKey,
                                               !.sent_body = data,
                                               !.sent_type = content_type]
            ELSE UNCHANGED <<objects, nextKey, xfer>>
    /\ UNCHANGED <<now, records, quota, settings, clients, observe, logFaults,
                   pc, op, result, drv, job, hist>>

\* download_file, minio_driver.py 147-182 (s3_driver.py 153-186), of the
\* key the last upload returned: the object's bytes and its content type,
\* or the backend's error raised again (as for a key that is gone).
DriverDownloadFile(c, out) ==
    /\ c \in clients
    /\ pc[c] = "idle"
    /\ xfer.state # "none"
    /\ IF out = "ok" /\ HasObject(objects, xfer.key)
         THEN xfer' = [xfer EXCEPT
                          !.state = "downloaded",
                          !.got_body = ObjectAt(xfer.key).body,
                          !.got_type =
                              DownloadedContentType(ObjectAt(xfer.key).content_type)]
         ELSE xfer' = [xfer EXCEPT !.state = "raised",
                                   !.got_body = <<>>, !.got_type = ""]
    /\ UNCHANGED <<now, objects, records, quota, settings, nextKey, clients,
                   observe, logFaults, pc, op, result, drv, job, hist>>

\* -------------------------------------------------------------- the clock
Tick(t) ==
    /\ t \in TimePoints
    /\ t > now
    /\ now' = t
    /\ hist' = [Activity(hist) EXCEPT !.prev_deleted_at = hist.prev_deleted_at]
    /\ UNCHANGED <<objects, records, quota, settings, nextKey, clients, observe, logFaults, xfer, pc, op,
                   result, drv, job>>

\* ------------------------------------------------- StorageCleanupService
\* One mode's statistics dictionary; a key a mode's dictionary does not hold
\* is 0 here, errors is the length of its "errors" list, and ran is FALSE
\* for the empty dictionary of a mode that was not invoked.
EmptyStats ==
    [ran |-> FALSE, files_found |-> 0, files_deleted |-> 0, files_failed |-> 0,
     records_found |-> 0, records_deleted |-> 0, records_failed |-> 0,
     bytes_freed |-> 0, errors |-> 0]

EmptyReport ==
    [orphaned_files |-> EmptyStats, orphaned_records |-> EmptyStats,
     soft_deleted |-> EmptyStats]

\* get_storage_stats, lines 283-318: the "database" part (the "disk" part is
\* the file system's usage, which no property reads).
get_storage_stats(recs) ==
    [total_files |-> Cardinality(recs),
     active_files |-> Cardinality({r \in recs : r.deleted_at = Null}),
     deleted_files |-> Cardinality({r \in recs : r.deleted_at # Null}),
     active_size_bytes |-> SumSize({r \in recs : r.deleted_at = Null}),
     total_size_bytes |-> SumSize(recs)]

\* Statistics that were not taken.
NoStorageStats ==
    [total_files |-> Null, active_files |-> Null, deleted_files |-> Null,
     active_size_bytes |-> Null, total_size_bytes |-> Null]

IdleJob ==
    [phase |-> "idle", dry_run |-> TRUE, cleanup_orphaned_files |-> TRUE,
     cleanup_orphaned_records |-> TRUE, cleanup_soft_deleted |-> TRUE,
     soft_deleted_days |-> 1, cand |-> {}, pend |-> {}, report |-> EmptyReport,
     before |-> NoStorageStats, after |-> NoStorageStats]

\* Variant: no age filter.
find_unreferenced_files(objs, recs, t) ==
    LET db_file_paths == {r.file_key : r \in {x \in recs : x.deleted_at = Null}}
    IN {o.key : o \in {x \in objs : x.key \notin db_file_paths}}

\* Variant: the age filter keeps the files newer than the cutoff.
find_recent_unreferenced_files(objs, recs, t) ==
    LET cutoff_time == t - OrphanAgeHours
        db_file_paths == {r.file_key : r \in {x \in recs : x.deleted_at = Null}}
    IN {o.key : o \in {x \in objs : x.mtime > cutoff_time
                                     /\ x.key \notin db_file_paths}}

\* Variant: no look at the rows.
find_old_files(objs, recs, t) ==
    LET cutoff_time == t - OrphanAgeHours
    IN {o.key : o \in {x \in objs : ~(x.mtime > cutoff_time)}}

\* Lines 38-83: the keys of the backend files that are not newer than the
\* cutoff and whose path no row with deleted_at IS NULL holds.
find_orphaned_files(objs, recs, t) ==
    LET cutoff_time == t - OrphanAgeHours
        db_file_paths == {r.file_key : r \in {x \in recs : x.deleted_at = Null}}
    IN {o.key : o \in {x \in objs : ~(x.mtime > cutoff_time)
                                     /\ x.key \notin db_file_paths}}

\* Variant: no age filter on the rows.
find_records_without_file(objs, recs, t) ==
    {r.id : r \in {x \in recs : /\ x.deleted_at = Null
                                    /\ ~HasObject(objs, x.file_key)}}

\* Lines 85-114: the ids of the rows with deleted_at IS NULL created before
\* the cutoff whose file does not exist.
find_orphaned_database_records(objs, recs, t) ==
    LET cutoff_time == t - OrphanAgeHours
    IN {r.id : r \in {x \in recs : /\ x.deleted_at = Null
                                    /\ x.created_at < cutoff_time
                                    /\ ~HasObject(objs, x.file_key)}}

\* Variant: every soft-deleted row, whatever the retention.
find_every_soft_deleted(recs, t, older_than_days) ==
    {r.id : r \in {x \in recs : x.deleted_at # Null}}

\* Lines 215-225: the ids of the rows soft-deleted before the cutoff.
find_soft_deleted(recs, t, older_than_days) ==
    LET cutoff_time == t - older_than_days * 24
    IN {r.id : r \in {x \in recs : /\ x.deleted_at # Null
                                    /\ x.deleted_at < cutoff_time}}

\* run_cleanup_job, lines 371-380: invoke cleanup_soft_deleted_files when its
\* flag is set (its query and its statistics dictionary), else take the
\* final statistics and finish.
EnterSoft(j, objs, recs, t) ==
    IF j.cleanup_soft_deleted
      THEN LET c == find_soft_deleted(recs, t, j.soft_deleted_days)
           IN [j EXCEPT !.phase = "soft_deleted", !.cand = c, !.pend = {},
                        !.report.soft_deleted =
                            [EmptyStats EXCEPT !.ran = TRUE,
                                               !.files_found = Cardinality(c)]]
      ELSE [j EXCEPT !.phase = "done", !.cand = {}, !.pend = {},
                     !.after = get_storage_stats(recs)]

\* Variant: the orphaned-records mode is invoked whatever its flag.
EnterRecordsAlways(j, objs, recs, t) ==
    LET c == find_orphaned_database_records(objs, recs, t)
    IN [j EXCEPT !.phase = "orphaned_records", !.cand = c, !.pend = {},
                 !.report.orphaned_records =
                     [EmptyStats EXCEPT !.ran = TRUE,
                                        !.records_found = Cardinality(c)]]

\* run_cleanup_job, lines 366-369.
EnterRecords(j, objs, recs, t) ==
    IF j.cleanup_orphaned_records
      THEN LET c == find_orphaned_database_records(objs, recs, t)
           IN [j EXCEPT !.phase = "orphaned_records", !.cand = c, !.pend = {},
                        !.report.orphaned_records =
                            [EmptyStats EXCEPT !.ran = TRUE,
                                               !.records_found = Cardinality(c)]]
      ELSE EnterSoft(j, objs, recs, t)

\* run_cleanup_job, lines 361-364.
EnterFiles(j, objs, recs, t) ==
    IF j.cleanup_orphaned_files
      THEN LET c == find_orphaned_files(objs, recs, t)
           IN [j EXCEPT !.phase = "orphaned_files", !.cand = c, !.pend = {},
                        !.report.orphaned_files =
                            [EmptyStats EXCEPT !.ran = TRUE,
                                               !.files_found = Cardinality(c)]]
      ELSE EnterRecords(j, objs, recs, t)

RealFullRun(j) ==
    /\ ~j.dry_run
    /\ j.cleanup_orphaned_files
    /\ j.cleanup_orphaned_records
    /\ j.cleanup_soft_deleted

\* Whether a report counts any deletion.
DidWork(rep) ==
    \/ rep.orphaned_files.files_deleted > 0
    \/ rep.orphaned_records.records_deleted > 0
    \/ rep.soft_deleted.records_deleted > 0

NoFailures(rep) ==
    /\ rep.orphaned_files.files_failed = 0
    /\ rep.orphaned_records.records_failed = 0
    /\ rep.soft_deleted.files_failed = 0

\* History kept when the job reaches phase "done": clean says that a real
\* run of all three modes just completed with no failed item, days is its
\* retention, work whether it deleted anything.
HistAtPhase(h, j) ==
    IF j.phase = "done" /\ RealFullRun(j) /\ NoFailures(j.report)
      THEN [h EXCEPT !.clean = TRUE, !.days = j.soft_deleted_days,
                     !.work = DidWork(j.report)]
      ELSE h

\* run_cleanup_job, lines 324-364: the arguments, the empty results, the
\* initial statistics and the first enabled mode's search.
StartRun(dry, ff, fr, fs, days) ==
    /\ job.phase = "idle"
    /\ LET j == [IdleJob EXCEPT !.phase = "start", !.dry_run = dry,
                                !.cleanup_orphaned_files = ff,
                                !.cleanup_orphaned_records = fr,
                                !.cleanup_soft_deleted = fs,
                                !.soft_deleted_days = days,
                                !.before = get_storage_stats(records)]
           h == [hist EXCEPT !.clean = FALSE, !.days = 0,
                             !.second = /\ hist.clean
                                        /\ days >= hist.days
                                        /\ RealFullRun(j)]
       IN /\ job' = EnterFiles(j, objects, records, now)
          /\ hist' = HistAtPhase(h, job')
    /\ UNCHANGED <<now, objects, records, quota, settings, nextKey, clients, observe, logFaults, xfer,
                   pc, op, result, drv>>

\* Variant: the first failure ends the batch.
OrphanFileAborts(j, k) ==
    [j EXCEPT !.cand = {},
              !.report.orphaned_files.files_failed = @ + 1,
              !.report.orphaned_files.errors = @ + 1]

\* cleanup_orphaned_files, lines 150-154: the except branch counts the item
\* and the loop goes on with the next candidate.
OrphanFileFailed(j, k) ==
    [j EXCEPT !.cand = j.cand \ {k},
              !.report.orphaned_files.files_failed = @ + 1,
              !.report.orphaned_files.errors = @ + 1]

\* cleanup_orphaned_files, lines 136-154, one candidate.  fail: stat or
\* unlink raises OSError (as stat does when the file is gone).
OrphanFileItem(k, fail) ==
    /\ job.phase = "orphaned_files"
    /\ k \in job.cand
    /\ LET st == job.report.orphaned_files
           raised == fail \/ ~HasObject(objects, k)
       IN IF raised
            THEN /\ job' = OrphanFileFailed(job, k)
                 /\ objects' = objects
            ELSE IF ~job.dry_run
              THEN /\ objects' = objects \ {ObjectAt(k)}
                   /\ job' = [job EXCEPT !.cand = job.cand \ {k},
                                !.report.orphaned_files =
                                   [st EXCEPT !.files_deleted = st.files_deleted + 1,
                                              !.bytes_freed = st.bytes_freed
                                                              + ObjectAt(k).size]]
              ELSE /\ objects' = objects
                   /\ job' = [job EXCEPT !.cand = job.cand \ {k},
                                !.report.orphaned_files =
                                   [st EXCEPT !.bytes_freed = st.bytes_freed
                                                              + ObjectAt(k).size]]
    /\ UNCHANGED <<now, records, quota, settings, nextKey, clients, observe, logFaults, xfer, pc, op,
                   result, drv, hist>>

\* cleanup_orphaned_files, lines 156-159, and the next enabled mode.
OrphanFilesFinish ==
    /\ job.phase = "orphaned_files"
    /\ job.cand = {}
    /\ LET j == IF job.dry_run
                  THEN [job EXCEPT !.report.orphaned_files.files_deleted = 0]
                  ELSE job
       IN job' = EnterRecords(j, objects, records, now)
    /\ hist' = HistAtPhase(hist, job')
    /\ UNCHANGED <<now, objects, records, quota, settings, nextKey, clients, observe, logFaults, xfer,
                   pc, op, result, drv>>

\* cleanup_orphaned_database_records, lines 180-194, one candidate: the row
\* object is soft-deleted in the session (written at the commit).
OrphanRecordItem(id) ==
    /\ job.phase = "orphaned_records"
    /\ id \in job.cand
    /\ LET st == job.report.orphaned_records
       IN IF ~job.dry_run
            THEN job' = [job EXCEPT !.cand = job.cand \ {id},
                           !.pend = job.pend \cup {[id |-> id, at |-> now]},
                           !.report.orphaned_records.records_deleted =
                               st.records_deleted + 1]
            ELSE job' = [job EXCEPT !.cand = job.cand \ {id}]
    /\ UNCHANGED <<now, objects, records, quota, settings, nextKey, clients, observe, logFaults, xfer,
                   pc, op, result, drv, hist>>

\* Variant: the commit removes the rows.
RemoveOrphanedRows(recs, pend) ==
    {r \in recs : ~(\E p \in pend : p.id = r.id)}

\* The rows after the session's commit of the soft deletes in pend.
CommitSoftDeletes(recs, pend) ==
    {IF \E p \in pend : p.id = r.id
       THEN soft_delete(r, (CHOOSE p \in pend : p.id = r.id).at)
       ELSE r : r \in recs}

\* The job after a commit raised: the exception leaves the mode and
\* run_cleanup_job, the session's changes are rolled back and no results are
\* returned.
FailedJob(j) == [j EXCEPT !.phase = "failed", !.cand = {}, !.pend = {}]

\* cleanup_orphaned_database_records, lines 196-202, and the next mode.
\* ok = FALSE: the commit of line 197 raises.
OrphanRecordsFinish(ok) ==
    /\ job.phase = "orphaned_records"
    /\ job.cand = {}
    /\ LET st == job.report.orphaned_records
           commits == ~job.dry_run /\ st.records_deleted > 0
           recs == IF commits /\ ok
                     THEN CommitSoftDeletes(records, job.pend)
                     ELSE records
           j == IF job.dry_run
                  THEN [job EXCEPT !.report.orphaned_records.records_deleted = 0]
                  ELSE job
       IN /\ ok \/ commits
          /\ records' = recs
          /\ job' = IF ok THEN EnterSoft(j, objects, recs, now) ELSE FailedJob(job)
    /\ hist' = HistAtPhase(hist, job')
    /\ UNCHANGED <<now, objects, quota, settings, nextKey, clients, observe, logFaults, xfer, pc, op,
                   result, drv>>

\* cleanup_soft_deleted_files, lines 236-265, one candidate.  fail: stat or
\* unlink of the existing file raises; the except branch counts the item as
\* failed and its row is not deleted.  delFail: db.delete raises, after the
\* file was unlinked and counted; the item is counted as failed as well and
\* its row is not deleted.
SoftDeletedItem(id, fail, delFail) ==
    /\ job.phase = "soft_deleted"
    /\ id \in job.cand
    /\ delFail => (~job.dry_run /\ ~(HasObject(objects, id) /\ fail))
    /\ LET st == job.report.soft_deleted
           present == HasObject(objects, id)
           file_size == IF present THEN ObjectAt(id).size ELSE 0
       IN IF present /\ fail
            THEN /\ job' = [job EXCEPT !.cand = job.cand \ {id},
                              !.report.soft_deleted =
                                 [st EXCEPT !.files_failed = st.files_failed + 1,
                                            !.errors = st.errors + 1]]
                 /\ objects' = objects
            ELSE IF ~job.dry_run
              THEN /\ objects' = {o \in objects : o.key # id}
                   /\ job' = [job EXCEPT !.cand = job.cand \ {id},
                                !.pend = IF delFail THEN job.pend
                                         ELSE job.pend \cup {[id |-> id, at |-> now]},
                                !.report.soft_deleted =
                                   [st EXCEPT
                                      !.files_deleted = st.files_deleted
                                          + (IF present THEN 1 ELSE 0),
                                      !.bytes_freed = st.bytes_freed + file_size,
                                      !.records_deleted = st.records_deleted
                                          + (IF delFail THEN 0 ELSE 1),
                                      !.files_failed = st.files_failed
                                          + (IF delFail THEN 1 ELSE 0),
                                      !.errors = st.errors
                                          + (IF delFail THEN 1 ELSE 0)]]
              ELSE /\ objects' = objects
                   /\ job' = [job EXCEPT !.cand = job.cand \ {id},
                                !.report.soft_deleted.bytes_freed =
                                    st.bytes_freed + file_size]
    /\ UNCHANGED <<now, records, quota, settings, nextKey, clients, observe, logFaults, xfer, pc, op,
                   result, drv, hist>>

\* Variant: the commit deletes no row.
KeepRows(recs, pend) == recs

\* The rows after the session's commit of the row deletions in pend.
CommitDeletes(recs, pend) ==
    {r \in recs : ~(\E p \in pend : p.id = r.id)}

\* cleanup_soft_deleted_files, lines 267-274, and run_cleanup_job's end.
\* ok = FALSE: the commit of line 268 raises.
SoftDeletedFinish(ok) ==
    /\ job.phase = "soft_deleted"
    /\ job.cand = {}
    /\ LET st == job.report.soft_deleted
           commits == ~job.dry_run /\ st.records_deleted > 0
       IN /\ ok \/ commits
          /\ records' = IF commits /\ ok
                          THEN CommitDeletes(records, job.pend)
                          ELSE records
          /\ job' = IF ~ok THEN FailedJob(job)
                    ELSE IF job.dry_run
                      THEN [job EXCEPT !.phase = "done", !.pend = {},
                                       !.report.soft_deleted.files_deleted = 0,
                                       !.report.soft_deleted.records_deleted = 0,
                                       !.after = get_storage_stats(records')]
                      ELSE [job EXCEPT !.phase = "done", !.pend = {},
                                       !.after = get_storage_stats(records')]
    /\ hist' = HistAtPhase(hist, job')
    /\ UNCHANGED <<now, objects, quota, settings, nextKey, clients, observe, logFaults, xfer, pc, op,
                   result, drv>>

\* run_cleanup_job, lines 382-406: the results are returned to the caller
\* (or, after a commit raised, the exception is).
JobReturn ==
    /\ job.phase \in {"done", "failed"}
    /\ job' = IdleJob
    /\ hist' = [hist EXCEPT !.second = FALSE]
    /\ UNCHANGED <<now, objects, records, quota, settings, nextKey, clients, observe, logFaults, xfer,
                   pc, op, result, drv>>

\* Variant: the row deletions staged so far are written.
FlushSession(recs, pend) == CommitDeletes(recs, pend)

\* The rows when a session is closed without a commit: as they were.
DiscardSession(recs, pend) == recs

\* The job is stopped between two items (the process is killed, the task
\* is cancelled): no later statement runs, the commit after the loop among
\* them, and the session with the row deletions it staged is discarded.
\* What was unlinked stays unlinked.
JobHalted ==
    /\ job.phase \in {"orphaned_files", "orphaned_records", "soft_deleted"}
    /\ job' = IdleJob
    /\ records' = DiscardSession(records, job.pend)
    /\ hist' = [hist EXCEPT !.second = FALSE, !.clean = FALSE,
                            !.halted = job.report.soft_deleted.files_deleted > 0]
    /\ UNCHANGED <<now, objects, quota, settings, nextKey, clients, observe,
                   logFaults, xfer, pc, op, result, drv>>

\* ------------------------------------------------------------ specifications
\* get_or_create_quota's defaults when the configuration names none (1 GB,
\* 1000 files, 100 MB per file), scaled: limits that no upload within the
\* bounds reaches.
DefaultSettings ==
    [default_storage_quota_bytes |-> (MaxKeys + 1) * MaxSize,
     default_max_files |-> MaxKeys + 1,
     default_max_file_size_bytes |-> MaxSize]

SettingsChoices ==
    [default_storage_quota_bytes : MaxStorageChoices,
     default_max_files : MaxFilesChoices,
     default_max_file_size_bytes : MaxFileSizeChoices]

\* The quota rows a workspace may hold before its first upload.
QuotaRowChoices ==
    [exists : {TRUE}, max_storage_bytes : MaxStorageChoices,
     max_files : MaxFilesChoices, max_file_size_bytes : MaxFileSizeChoices,
     used_storage_bytes : {0}, used_files : {0}, enforce_quota : BOOLEAN]

\* prev_deleted_at, kept when outcomes are recorded: the deleted_at the row
\* had before the committed soft delete that was the client's latest write
\* (Null: the row was not deleted, or the latest write was something else).
InitHist ==
    [late |-> FALSE, clean |-> FALSE, second |-> FALSE, days |-> 0, work |-> FALSE,
     halted |-> FALSE, prev_deleted_at |-> Null]

InitWith(cl, obs, q, st) ==
    /\ now = 0
    /\ objects = {}
    /\ records = {}
    /\ quota = [w \in Workspaces |-> q]
    /\ settings = st
    /\ nextKey = 1
    /\ clients = cl
    /\ observe = obs
    /\ logFaults = FALSE
    /\ xfer = NoTransfer
    /\ pc = [c \in Clients |-> "idle"]
    /\ op = [c \in Clients |-> IdleOp]
    /\ result = [c \in Clients |-> NoResponse]
    /\ drv = [c \in Clients |-> 0]
    /\ job = IdleJob
    /\ hist = InitHist

\* upload_file, step by step.
Uploads ==
    \/ \E c \in Clients, w \in Workspaces, s \in Sizes : UploadCheck(c, w, s)
    \/ \E c \in Clients, ok \in BOOLEAN : UploadWrite(c, ok)
    \/ \E c \in Clients, ok \in BOOLEAN : UploadCommit(c, ok)

ClientWrites ==
    \/ Uploads
    \/ \E c \in Clients, w \in Workspaces, id \in Keys, hard \in BOOLEAN,
          drvOk \in BOOLEAN, ok \in BOOLEAN : DeleteFile(c, w, id, hard, drvOk, ok)

ClientReads ==
    \/ \E c \in Clients, w \in Workspaces, id \in Keys : DownloadFile(c, w, id)
    \/ \E c \in Clients, w \in Workspaces, id \in Keys : GenerateSignedUrl(c, w, id)

\* The steps of a cleanup job once it is started, while the session's row
\* deletions and commits succeed (an unlink may fail).
CleanupSteps ==
    \/ \E k \in Keys, fail \in BOOLEAN : OrphanFileItem(k, fail)
    \/ OrphanFilesFinish
    \/ \E id \in Keys : OrphanRecordItem(id)
    \/ OrphanRecordsFinish(TRUE)
    \/ \E id \in Keys, fail \in BOOLEAN : SoftDeletedItem(id, fail, FALSE)
    \/ SoftDeletedFinish(TRUE)
    \/ JobReturn

\* The steps in which the session raises: a commit, or db.delete.
SessionFaultSteps ==
    \/ OrphanRecordsFinish(FALSE)
    \/ \E id \in Keys, fail \in BOOLEAN : SoftDeletedItem(id, fail, TRUE)
    \/ SoftDeletedFinish(FALSE)

\* One client, the clock and the cleanup job, under the default quota.
\* The job runs with no concurrent writer: the client and the clock move
\* between jobs.  Real runs: of all three modes, or of the soft-deleted
\* collection alone.
Init == InitWith({"c1"}, FALSE, NoQuota, DefaultSettings)

Next ==
    \/ job.phase = "idle" /\ ClientWrites
    \/ job.phase = "idle" /\ \E t \in TimePoints : Tick(t)
    \/ \E all \in BOOLEAN, days \in RetentionChoices :
          StartRun(FALSE, all, all, TRUE, days)
    \/ CleanupSteps

Spec == Init /\ [][Next]_vars

\* One client uploading and deleting, one request after the other; the
\* driver call and the commit of its deletes succeed.  A workspace has no
\* quota row yet and gets one from the configured defaults, whatever they
\* are, or it holds a row whose enforcement was switched off.
InitService ==
    \/ \E st \in SettingsChoices : InitWith({"c1"}, TRUE, NoQuota, st)
    \/ \E q \in {x \in QuotaRowChoices : ~x.enforce_quota} :
          InitWith({"c1"}, TRUE, q, DefaultSettings)

NextService ==
    \/ Uploads
    \/ \E c \in Clients, w \in Workspaces, id \in Keys, hard \in BOOLEAN :
          DeleteFile(c, w, id, hard, TRUE, TRUE)

SpecService == InitService /\ [][NextService]_vars

\* One client of one workspace's service, under every configured default
\* and every quota row: uploads and hard deletes, every call succeeding.
InitLimits ==
    \/ \E st \in SettingsChoices : InitWith({"c1"}, TRUE, NoQuota, st)
    \/ \E q \in QuotaRowChoices : InitWith({"c1"}, TRUE, q, DefaultSettings)

NextLimits ==
    \/ \E c \in Clients, s \in Sizes : UploadCheck(c, "wsA", s)
    \/ \E c \in Clients : UploadWrite(c, TRUE)
    \/ \E c \in Clients : UploadCommit(c, TRUE)
    \/ \E c \in Clients, id \in Keys : DeleteFile(c, "wsA", id, TRUE, TRUE, TRUE)

SpecLimits == InitLimits /\ [][NextLimits]_vars

\* One client issuing every kind of request, for its own and for the other
\* workspace's files, under the default quota.
InitAccess == InitWith({"c1"}, TRUE, NoQuota, DefaultSettings)

NextAccess == ClientWrites \/ ClientReads

SpecAccess == InitAccess /\ [][NextAccess]_vars

\* Two clients of one workspace's service, with no quota row at the start:
\* uploads in any interleaving, soft and hard deletes; every backend call
\* and every commit succeeds.
InitInterleave == InitWith({"c1", "c2"}, FALSE, NoQuota, DefaultSettings)

NextInterleave ==
    \/ \E c \in Clients, s \in Sizes : UploadCheck(c, "wsA", s)
    \/ \E c \in Clients : UploadWrite(c, TRUE)
    \/ \E c \in Clients : UploadCommit(c, TRUE)
    \/ \E c \in Clients, id \in Keys, hard \in BOOLEAN :
          DeleteFile(c, "wsA", id, hard, TRUE, TRUE)

SpecInterleave == InitInterleave /\ [][NextInterleave]_vars

\* One client of one workspace's service and the clock: uploads with and
\* without an expiry, soft and hard deletes, downloads and signed URLs.
NextExpiry ==
    \/ \E c \in Clients, s \in Sizes, e \in ExpiryChoices :
          UploadRequest(c, "wsA", s, e)
    \/ \E c \in Clients : UploadWrite(c, TRUE)
    \/ \E c \in Clients : UploadCommit(c, TRUE)
    \/ \E c \in Clients, id \in Keys, hard \in BOOLEAN :
          DeleteFile(c, "wsA", id, hard, TRUE, TRUE)
    \/ \E c \in Clients, id \in Keys : DownloadFile(c, "wsA", id)
    \/ \E c \in Clients, id \in Keys : GenerateSignedUrl(c, "wsA", id)
    \/ \E t \in TimePoints : Tick(t)

SpecExpiry == InitAccess /\ [][NextExpiry]_vars

\* One client issuing every kind of request, while the write of the
\* access log may fail in either way.
InitLog ==
    /\ now = 0
    /\ objects = {}
    /\ records = {}
    /\ quota = [w \in Workspaces |-> NoQuota]
    /\ settings = DefaultSettings
    /\ nextKey = 1
    /\ clients = {"c1"}
    /\ observe = TRUE
    /\ logFaults = TRUE
    /\ xfer = NoTransfer
    /\ pc = [c \in Clients |-> "idle"]
    /\ op = [c \in Clients |-> IdleOp]
    /\ result = [c \in Clients |-> NoResponse]
    /\ drv = [c \in Clients |-> 0]
    /\ job = IdleJob
    /\ hist = InitHist

SpecLog == InitLog /\ [][NextAccess]_vars

\* One client calling a workspace's driver: deletes, copies and moves over
\* a bucket that holds any objects at the start; any call of the backend
\* may fail.
BucketChoices ==
    {b \in SUBSET [key : Keys, size : Sizes, mtime : {0}] :
        \A x \in b, y \in b : x.key = y.key => x = y}

InitDriver ==
    /\ now = 0
    /\ objects \in BucketChoices
    /\ records = {}
    /\ quota = [w \in Workspaces |-> NoQuota]
    /\ settings = DefaultSettings
    /\ nextKey = 1
    /\ clients = {"c1"}
    /\ observe = TRUE
    /\ logFaults = FALSE
    /\ xfer = NoTransfer
    /\ pc = [c \in Clients |-> "idle"]
    /\ op = [c \in Clients |-> IdleOp]
    /\ result = [c \in Clients |-> NoResponse]
    /\ drv = [c \in Clients |-> 0]
    /\ job = IdleJob
    /\ hist = InitHist

NextDriver ==
    \/ \E c \in Clients, k \in Keys, out \in BackendOutcomes :
          DriverDeleteFile(c, k, out)
    \/ \E c \in Clients, src \in Keys, dst \in Keys, out \in BackendOutcomes :
          CopyFile(c, src, dst, out)
    \/ \E c \in Clients, src \in Keys, dst \in Keys, out \in BackendOutcomes :
          MoveFileCopy(c, src, dst, out)
    \/ \E c \in Clients, out \in BackendOutcomes : MoveFileDelete(c, out)

SpecDriver == InitDriver /\ [][NextDriver]_vars

\* One client of a driver: uploads of any bytes with any content type from
\* a stream at any position, downloads of the key returned, and deletes.
NextRoundTrip ==
    \/ \E c \in Clients, data \in BodyChoices, pos \in 0..MaxSize,
          content_type \in ContentTypeChoices, out \in BackendOutcomes :
          DriverUploadFile(c, data, pos, content_type, out)
    \/ \E c \in Clients, out \in BackendOutcomes : DriverDownloadFile(c, out)
    \/ \E c \in Clients, k \in Keys, out \in BackendOutcomes :
          DriverDeleteFile(c, k, out)

SpecRoundTrip == InitAccess /\ [][NextRoundTrip]_vars

\* Two clients uploading concurrently under an enforced quota.
InitConc ==
    \E q \in {x \in QuotaRowChoices : x.enforce_quota} :
        InitWith({"c1", "c2"}, FALSE, q, DefaultSettings)

NextConc == Uploads

SpecConc == InitConc /\ [][NextConc]_vars

\* One client uploading and the clock, concurrently with real runs of the
\* orphaned-files mode.
NextRace ==
    \/ Uploads
    \/ \E t \in TimePoints : Tick(t)
    \/ \E days \in RetentionChoices : StartRun(FALSE, TRUE, FALSE, FALSE, days)
    \/ \E k \in Keys, fail \in BOOLEAN : OrphanFileItem(k, fail)
    \/ OrphanFilesFinish
    \/ JobReturn

SpecRace == Init /\ [][NextRace]_vars

\* The writes of the service of workspace w; the driver's delete succeeds.
ServiceWrites(w) ==
    \/ \E c \in Clients, sz \in Sizes : UploadCheck(c, w, sz)
    \/ \E c \in Clients, ok \in BOOLEAN : UploadWrite(c, ok)
    \/ \E c \in Clients, ok \in BOOLEAN : UploadCommit(c, ok)
    \/ \E c \in Clients, id \in Keys, hard \in BOOLEAN, ok \in BOOLEAN :
          DeleteFile(c, w, id, hard, TRUE, ok)

\* One client of one workspace's service, the clock and the cleanup job,
\* which runs with no concurrent writer: dry or real, with any choice of
\* modes, and its unlinks, row deletions and commits may fail.
NextCleanup ==
    \/ job.phase = "idle" /\ ServiceWrites("wsA")
    \/ job.phase = "idle" /\ \E t \in TimePoints : Tick(t)
    \/ \E dry \in BOOLEAN, ff \in BOOLEAN, fr \in BOOLEAN, fs \in BOOLEAN,
          days \in RetentionChoices : StartRun(dry, ff, fr, fs, days)
    \/ CleanupSteps
    \/ SessionFaultSteps

SpecCleanup == Init /\ [][NextCleanup]_vars

\* A file under storage_path that no row names, left there at hour 0 by an
\* upload whose commit failed in an earlier process; its key is one that no
\* upload of the one client reaches.
StrayKey == MaxKeys * Cardinality(Clients)

\* One client uploading and the clock, concurrently with real runs of the
\* orphaned-files mode, over a storage that holds a stray file.
InitBatch ==
    /\ now = 0
    /\ \E sz \in Sizes : objects = {[key |-> StrayKey, size |-> sz, mtime |-> 0]}
    /\ records = {}
    /\ quota = [w \in Workspaces |-> NoQuota]
    /\ settings = DefaultSettings
    /\ nextKey = 1
    /\ clients = {"c1"}
    /\ observe = FALSE
    /\ logFaults = FALSE
    /\ xfer = NoTransfer
    /\ pc = [c \in Clients |-> "idle"]
    /\ op = [c \in Clients |-> IdleOp]
    /\ result = [c \in Clients |-> NoResponse]
    /\ drv = [c \in Clients |-> 0]
    /\ job = IdleJob
    /\ hist = InitHist

SpecBatch == InitBatch /\ [][NextRace]_vars

\* One client of one workspace uploading or moving objects with the driver,
\* the clock passing the age threshold, and real runs of the orphaned-files
\* mode, over a storage that holds a stray file.  A move's destination is
\* the stray file's key, which no upload draws; every file uploaded has the
\* largest size (the mode reads a file's size for its statistics only).
NextReconcile ==
    \/ \E c \in Clients : UploadCheck(c, "wsA", MaxSize)
    \/ \E c \in Clients, ok \in BOOLEAN : UploadWrite(c, ok)
    \/ \E c \in Clients, ok \in BOOLEAN : UploadCommit(c, ok)
    \/ Tick(OrphanAgeHours + 1)
    \/ StartRun(FALSE, TRUE, FALSE, FALSE, 1)
    \/ \E k \in Keys, fail \in BOOLEAN : OrphanFileItem(k, fail)
    \/ OrphanFilesFinish
    \/ JobReturn
    \/ \E c \in Clients, src \in Keys, out \in BackendOutcomes :
          MoveFileCopy(c, src, StrayKey, out)
    \/ \E c \in Clients, out \in BackendOutcomes : MoveFileDelete(c, out)

\* The scheduler starts the job again whenever it has returned, a started
\* job runs to its end, and no file's stat and unlink fail for ever.
FairReconcile ==
    /\ WF_vars(StartRun(FALSE, TRUE, FALSE, FALSE, 1))
    /\ WF_vars(\E k \in Keys, fail \in BOOLEAN : OrphanFileItem(k, fail))
    /\ WF_vars(OrphanFilesFinish)
    /\ WF_vars(JobReturn)
    /\ \A k \in Keys : SF_vars(OrphanFileItem(k, FALSE))

SpecReconcile == InitBatch /\ [][NextReconcile]_vars /\ FairReconcile

\* One client of one workspace's service, the clock, and real runs of the
\* soft-deleted collection, any of which may be stopped between two items
\* or run to its end; an unlink may fail.
NextCancel ==
    \/ job.phase = "idle" /\ ServiceWrites("wsA")
    \/ job.phase = "idle" /\ \E t \in TimePoints : Tick(t)
    \/ \E days \in RetentionChoices : StartRun(FALSE, FALSE, FALSE, TRUE, days)
    \/ \E id \in Keys, fail \in BOOLEAN : SoftDeletedItem(id, fail, FALSE)
    \/ SoftDeletedFinish(TRUE)
    \/ JobReturn
    \/ JobHalted

SpecCancel == Init /\ [][NextCancel]_vars

\* One client of one workspace's service whose outcomes are recorded, the
\* clock, and dry and real runs of the soft-deleted collection with no
\* concurrent writer; an unlink may fail.
NextRetention ==
    \/ job.phase = "idle" /\ ServiceWrites("wsA")
    \/ job.phase = "idle" /\ \E t \in TimePoints : Tick(t)
    \/ \E dry \in BOOLEAN, days \in RetentionChoices :
          StartRun(dry, FALSE, FALSE, TRUE, days)
    \/ \E id \in Keys, fail \in BOOLEAN : SoftDeletedItem(id, fail, FALSE)
    \/ SoftDeletedFinish(TRUE)
    \/ JobReturn

SpecRetention == InitAccess /\ [][NextRetention]_vars

\* ----------------------------------------------------------------- properties
\* The rows of workspace w, and those of them that are not deleted.
RecordsOf(w) == {r \in records : r.workspace_id = w}
ActiveRecords(w) == {r \in RecordsOf(w) : ~is_deleted(r)}

\* No request is in flight.
AllIdle == \A c \in clients : pc[c] = "idle"

\* Some non-deleted row holds key k.
Referenced(recs, k) == \E r \in recs : r.file_key = k /\ ~is_deleted(r)

\* C1 (Spec).  When a real run of all three cleanup modes has completed,
\* with no request in flight and no writer during the run, every workspace's
\* used_storage_bytes is the sum of file_size over its non-deleted rows and
\* its used_files is their number.
C1_QuotaEqualsActiveRecords ==
    (job.phase = "done" /\ RealFullRun(job) /\ AllIdle) =>
        \A w \in Workspaces :
            /\ UsedBytes(w) = SumSize(ActiveRecords(w))
            /\ UsedFiles(w) = Cardinality(ActiveRecords(w))

\* C2 (SpecConc).  Under an enforced quota with max_storage_bytes in force,
\* in every state the counters are within the limits and so are the uploads
\* that passed the check and committed: the sizes of the committed rows sum
\* to at most max_storage_bytes and, with max_files in force, their number
\* is at most max_files.
C2_UploadsNeverJointlyExceed ==
    \A w \in Workspaces :
        (quota[w].exists /\ quota[w].enforce_quota
                         /\ Truthy(quota[w].max_storage_bytes)) =>
            /\ quota[w].used_storage_bytes <= quota[w].max_storage_bytes
            /\ SumSize(RecordsOf(w)) <= quota[w].max_storage_bytes
            /\ Truthy(quota[w].max_files) =>
                   /\ quota[w].used_files <= quota[w].max_files
                   /\ Cardinality(RecordsOf(w)) <= quota[w].max_files

Counts(st) ==
    {st.files_found, st.files_deleted, st.files_failed, st.records_found,
     st.records_deleted, st.records_failed, st.bytes_freed}

ZeroReport(rep) ==
    /\ Counts(rep.orphaned_files) \subseteq {0}
    /\ Counts(rep.orphaned_records) \subseteq {0}
    /\ Counts(rep.soft_deleted) \subseteq {0}

CheckAccepts(c) == pc[c] = "idle" /\ pc'[c] = "up_checked"
CheckRejects(c) ==
    /\ pc[c] = "idle"
    /\ result'[c] # result[c]
    /\ result'[c].kind = "upload"
    /\ result'[c].status = "413"
UploadCommits(c) ==
    /\ pc[c] = "up_written"
    /\ result'[c] # result[c]
    /\ result'[c].status = "ok"

\* The per-file size limit, the file-count limit: whether it refuses.
SizeRefuses(q, s) == Truthy(q.max_file_size_bytes) /\ s > q.max_file_size_bytes
CountRefuses(q) == Truthy(q.max_files) /\ q.used_files >= q.max_files

\* An accepted upload adds exactly its size and exactly 1.
CommitAddsSizeAndOne(c) ==
    UploadCommits(c) =>
        LET w == op[c].ws
        IN /\ quota'[w].used_storage_bytes
                  = quota[w].used_storage_bytes + op[c].size
           /\ quota'[w].used_files = quota[w].used_files + 1

LimitChecks(q, s) ==
    << [fails |-> SizeRefuses(q, s), reason |-> "File size exceeds limit"],
       [fails |-> Truthy(q.max_storage_bytes)
                     /\ q.used_storage_bytes + s > q.max_storage_bytes,
        reason |-> "Storage quota exceeded"],
       [fails |-> CountRefuses(q), reason |-> "File count limit reached"] >>

FailingChecks(q, s) == {i \in 1..3 : LimitChecks(q, s)[i].fails}

FirstOf(S) == CHOOSE i \in S : \A j \in S : i <= j

\* C6 (SpecService).  For every quota row and every file size,
\* can_upload_file allows the upload when enforce_quota is false; when it
\* is true it allows the upload exactly when none of the three checks
\* (file size, total bytes, file count) refuses, and otherwise gives the
\* reason of the first of them, in that order, that refuses.
C6_FirstFailingCheckDecides ==
    \A w \in Workspaces, s \in 1..(MaxSize + 1) :
        quota[w].exists =>
            LET q == quota[w]
                v == can_upload_file(q, s)
                F == FailingChecks(q, s)
            IN /\ ~q.enforce_quota => v.allowed
               /\ q.enforce_quota =>
                     /\ v.allowed <=> F = {}
                     /\ F # {} => v.reason = LimitChecks(q, s)[FirstOf(F)].reason

\* C6's case: all three checks refuse, and the upload was refused for the
\* file size.
C6_Witness ==
    \E w \in Workspaces :
        /\ quota[w].exists /\ quota[w].enforce_quota
        /\ result["c1"].kind = "upload" /\ result["c1"].ws = w
        /\ result["c1"].status = "413"
        /\ result["c1"].reason = "File size exceeds limit"
        /\ FailingChecks(quota[w], result["c1"].arg) = {1, 2, 3}

\* C7 (SpecService).  The step that answers an upload with 413 made no
\* driver call, wrote no backend object, created no row, consumed no file
\* key and left every workspace's counters as they were.
C7_RejectionBeforeAnyMutation ==
    [][\A c \in clients :
          (result'[c] # result[c] /\ result'[c].status = "413") =>
              /\ drv'[c] = 0
              /\ objects' = objects
              /\ records' = records
              /\ nextKey' = nextKey
              /\ pc'[c] = "idle"
              /\ \A w \in Workspaces :
                    /\ (IF quota'[w].exists THEN quota'[w].used_storage_bytes ELSE 0)
                          = UsedBytes(w)
                    /\ (IF quota'[w].exists THEN quota'[w].used_files ELSE 0)
                          = UsedFiles(w)]_vars

\* C7's case: an upload was refused while the workspace holds a file.
C7_Witness ==
    /\ result["c1"].status = "413"
    /\ \E r \in ActiveRecords(result["c1"].ws) : HasObject(objects, r.file_key)

\* The request answered by this step names a row of another workspace.
ForeignRequest(c) ==
    /\ result'[c] # result[c]
    /\ result'[c].kind \in {"download", "delete", "signed_url"}
    /\ \E r \in records : /\ r.id = result'[c].arg
                          /\ r.workspace_id # result'[c].ws

NothingChanges == objects' = objects /\ records' = records /\ quota' = quota

FreshSearch ==
    /\ job.phase = "orphaned_files"
    /\ Cardinality(job.cand) = job.report.orphaned_files.files_found

PastRetention(r) ==
    /\ r.deleted_at # Null
    /\ now - r.deleted_at > job.soft_deleted_days * 24

RowsGoOnlyWithoutObject ==
    \A r \in records : r \notin records' => ~HasObject(objects', r.file_key)

\* The candidate processed by this step of the collection had no backend
\* object.
AbsentItem(id) ==
    /\ id \in job.cand
    /\ id \notin job'.cand
    /\ ~HasObject(objects, id)

\* The rows whose deletion the session holds are gone.
PendingRowsGone == \A p \in job.pend : \A r \in records' : r.id # p.id

C11_ObjectGoesBeforeRow ==
    [][(job.phase = "soft_deleted" /\ ~job.dry_run) =>
          /\ RowsGoOnlyWithoutObject
          /\ \A p \in job'.pend : ~HasObject(objects', p.id)
          /\ \A id \in Keys :
                AbsentItem(id) =>
                    /\ \/ \E p \in job'.pend : p.id = id
                       \/ job'.report.soft_deleted.files_failed
                             = job.report.soft_deleted.files_failed + 1
                    /\ job'.report.soft_deleted.files_deleted
                          = job.report.soft_deleted.files_deleted
                    /\ job'.report.soft_deleted.bytes_freed
                          = job.report.soft_deleted.bytes_freed
          /\ job'.phase = "done" => PendingRowsGone
          /\ job'.phase = "failed" => records' = records]_vars

\* C11's case: a real collection ended having removed the row of a
\* candidate whose backend object was absent.
C11_Witness ==
    /\ job.phase = "done"
    /\ ~job.dry_run
    /\ job.report.soft_deleted.files_found > 0
    /\ job.report.soft_deleted.records_deleted > 0
    /\ job.report.soft_deleted.files_deleted = 0
    /\ job.after.total_files < job.before.total_files

\* Row r is a candidate of the orphaned-records mode: not deleted, created
\* more than the age threshold ago, and its backend object is missing.
OrphanedRecord(r) ==
    /\ r.deleted_at = Null
    /\ now - r.created_at > OrphanAgeHours
    /\ ~HasObject(objects, r.file_key)

OrphanedObjects ==
    {o \in objects : /\ now - o.mtime >= OrphanAgeHours
                     /\ ~Referenced(records, o.key)}

\* The backend objects of the rows soft-deleted more than the retention ago.
ExpiredObjects ==
    {o \in objects : \E r \in records : PastRetention(r) /\ r.file_key = o.key}

\* The job is past mode m: m's statistics are final.
ModeDone(m) ==
    \/ job.phase = "done"
    \/ m = "orphaned_files" /\ job.phase \in {"orphaned_records", "soft_deleted"}
    \/ m = "orphaned_records" /\ job.phase = "soft_deleted"

\* A dry run is under way or has ended.
DryRun == job.phase # "idle" /\ job.dry_run

OrphanItemStep(k) ==
    /\ job.phase = "orphaned_files"
    /\ k \in job.cand
    /\ k \notin job'.cand

ModeOrder == <<"orphaned_files", "orphaned_records", "soft_deleted">>

PhaseRank(p) ==
    CASE p = "idle" -> 0
      [] p = "orphaned_files" -> 1
      [] p = "orphaned_records" -> 2
      [] p = "soft_deleted" -> 3
      [] OTHER -> 4

ModeFlag(j, m) ==
    CASE m = "orphaned_files" -> j.cleanup_orphaned_files
      [] m = "orphaned_records" -> j.cleanup_orphaned_records
      [] OTHER -> j.cleanup_soft_deleted

ModeReport(j, m) ==
    CASE m = "orphaned_files" -> j.report.orphaned_files
      [] m = "orphaned_records" -> j.report.orphaned_records
      [] OTHER -> j.report.soft_deleted

\* The phase that follows the phase of rank n in job j: the first mode
\* after it whose flag is set, or the end.
PhaseAfter(j, n) ==
    LET later == {i \in 1..3 : i > n /\ ModeFlag(j, ModeOrder[i])}
    IN IF later = {} THEN "done" ELSE ModeOrder[FirstOf(later)]

\* The database statistics of the rows.
StatsOf(recs) ==
    [total_files |-> Cardinality(recs),
     active_files |-> Cardinality({r \in recs : ~is_deleted(r)}),
     deleted_files |-> Cardinality({r \in recs : is_deleted(r)}),
     active_size_bytes |-> SumSize({r \in recs : ~is_deleted(r)}),
     total_size_bytes |-> SumSize(recs)]

C16_ActiveRecordHasObject ==
    \A r \in records : r.status = "active" => HasObject(objects, r.file_key)

\* The rows of workspace w that this step creates, and those it removes.
RowsCreated(w) ==
    {r \in records' : r.workspace_id = w /\ \A x \in records : x.id # r.id}
RowsRemoved(w) ==
    {r \in records : r.workspace_id = w /\ \A x \in records' : x.id # r.id}

ReachedItsLog(c) ==
    LET r == result'[c]
    IN /\ r # result[c]
       /\ CASE r.kind = "upload" ->
                 \E x \in records' : \A y \in records : y.id # x.id
            [] r.kind = "delete" -> records' # records
            [] r.kind = "download" ->
                 \E x \in FileRows(r.ws, r.arg) :
                     ~is_deleted(x) /\ HasObject(objects, x.file_key)
            [] r.kind = "signed_url" ->
                 \E x \in FileRows(r.ws, r.arg) : ~is_deleted(x)
            [] OTHER -> FALSE

\* C18 (SpecLog).  An upload, download, delete or signed-URL request whose
\* driver call and commit succeeded returns its normal result, whether the
\* write of the access log that follows succeeds or fails.
C18_LogFailureNeverPropagates ==
    [][\A c \in clients : ReachedItsLog(c) => result'[c].status = "ok"]_vars

\* C18, the part that holds: with the access log failing in any way, a hard
\* delete and a signed-URL request return their normal result, and no
\* request changes a row, a counter or an object other than by its own
\* commit and driver call: an answered upload leaves its row, its object
\* and the counters raised by its size and 1, whatever the answer.
C18_LogFailureLeavesStateAndSomeResults ==
    [][\A c \in clients : ReachedItsLog(c) =>
          LET r == result'[c]
          IN /\ (r.kind = "signed_url") => r.status = "ok"
             /\ (r.kind = "delete" /\ \E x \in records : \A y \in records' : y.id # x.id)
                   => r.status = "ok"
             /\ (r.kind = "upload") =>
                   /\ \E x \in records' :
                         /\ \A y \in records : y.id # x.id
                         /\ x.size = r.arg /\ x.workspace_id = r.ws
                         /\ x.status = "active"
                         /\ HasObject(objects', x.file_key)
                   /\ quota'[r.ws].used_storage_bytes = UsedBytes(r.ws) + r.arg
                   /\ quota'[r.ws].used_files = UsedFiles(r.ws) + 1
             /\ (r.kind = "download") => NothingChanges]_vars

\* This step is the answer of a driver call of this kind by client c.
DriverAnswers(c, kind) == result'[c] # result[c] /\ result'[c].kind = kind

\* C19 (SpecDriver).  delete_file of a key that exists removes it and
\* returns true, unless the backend fails, and then the object stays and
\* the result is not true; delete_file of a key that is absent changes
\* nothing and does not return true.
C19_DeleteOfAbsentKeyReturnsFalse ==
    [][\A c \in clients : DriverAnswers(c, "driver_delete") =>
          LET k == result'[c].arg
          IN IF HasObject(objects, k)
               THEN \/ objects' = RemoveObject(objects, k)
                         /\ result'[c].status = "true"
                    \/ objects' = objects /\ result'[c].status # "true"
               ELSE objects' = objects /\ result'[c].status # "true"]_vars

\* C19, the part that holds: delete_file returns true exactly when the
\* call of the backend returns, and then the key is absent and every other
\* object is as it was, whether the key existed or not; otherwise nothing
\* changes.  A delete of an absent key changes nothing in any case.
C19_DeleteIsIdempotentOnTheBucket ==
    [][\A c \in clients : DriverAnswers(c, "driver_delete") =>
          LET k == result'[c].arg
          IN /\ result'[c].status = "true" => objects' = RemoveObject(objects, k)
             /\ result'[c].status # "true" => objects' = objects
             /\ ~HasObject(objects, k) => objects' = objects]_vars

\* The object stored under key k.
ObjectOf(objs, k) == CHOOSE o \in objs : o.key = k

\* C20 (SpecDriver).  move_file copies, then deletes.  A copy that fails
\* ends the move with false and changes nothing.  A copy that succeeds had
\* a source, leaves it as it was and puts its content under the
\* destination, touching no other key.  The delete that follows either
\* removes the source and nothing else and the move returns true, or fails,
\* changes nothing and the move returns false with both keys present.  A
\* move never ends with an exception, and between its two steps and at its
\* end the destination exists.
C20_MoveCopiesThenDeletes ==
    /\ [](\A c \in clients : pc[c] = "mv_copied" =>
             /\ op[c].key # op[c].dst
             /\ HasObject(objects, op[c].key)
             /\ HasObject(objects, op[c].dst)
             /\ ObjectOf(objects, op[c].dst).size = ObjectOf(objects, op[c].key).size)
    /\ [][\A c \in clients :
            /\ (pc[c] = "idle" /\ DriverAnswers(c, "move")) =>
                  /\ objects' = objects
                  /\ result'[c].status = "false"
                  /\ pc'[c] = "idle"
            /\ (pc[c] = "idle" /\ pc'[c] = "mv_copied") =>
                  LET src == op'[c].key
                      dst == op'[c].dst
                  IN /\ HasObject(objects, src)
                     /\ ObjectOf(objects', src) = ObjectOf(objects, src)
                     /\ HasObject(objects', dst)
                     /\ ObjectOf(objects', dst).size = ObjectOf(objects, src).size
                     /\ {o \in objects' : o.key # dst} = {o \in objects : o.key # dst}
                     /\ result'[c] = result[c]
            /\ pc[c] = "mv_copied" =>
                  /\ DriverAnswers(c, "move")
                  /\ pc'[c] = "idle"
                  /\ result'[c].arg = op[c].key
                  /\ \/ /\ result'[c].status = "true"
                        /\ objects' = {o \in objects : o.key # op[c].key}
                     \/ /\ result'[c].status = "false"
                        /\ objects' = objects
                  /\ HasObject(objects', op[c].dst)]_vars

\* A move has returned false after its copy succeeded and its delete
\* failed, and left the source and one more object.
C20_Witness ==
    /\ pc["c1"] = "idle"
    /\ result["c1"].kind = "move"
    /\ result["c1"].status = "false"
    /\ result["c1"].reason = "Failed to delete file"
    /\ HasObject(objects, result["c1"].arg)
    /\ Cardinality(objects) >= 2

\* The backend holds under key k an object older than the age threshold
\* that no non-deleted row names.
Overdue(k) ==
    \E o \in objects : /\ o.key = k
                        /\ now - o.mtime > OrphanAgeHours
                        /\ ~Referenced(records, k)

ExpiredRows == {r \in records : PastRetention(r)}

C24_OnlyTheOrphanedFilesModeTakesItEarly ==
    [][/\ (job.phase = "idle" /\ records' # records
             /\ \A r \in records : \E x \in records' : x.id = r.id)
          => objects \subseteq objects'
       /\ job.phase \in {"orphaned_records", "soft_deleted"} =>
            \A o \in objects :
                o \notin objects' =>
                    \A r \in records :
                        (r.file_key = o.key /\ is_deleted(r)) => PastRetention(r)]_vars

\* C25 (SpecService).  The step of an upload that calls the driver calls it
\* exactly once; when the call fails the same step answers the caller with
\* the error and leaves the backend, the rows, the key counter and every
\* workspace's quota row as they were.
C25_WriteFailureSurfacedAtOnce ==
    [][\A c \in clients :
          (pc[c] = "up_checked" /\ pc'[c] # "up_checked") =>
              /\ drv'[c] = drv[c] + 1
              /\ \/ /\ pc'[c] = "up_written"
                    /\ HasObject(objects', op'[c].key)
                    /\ result'[c] = result[c]
                 \/ /\ pc'[c] = "idle"
                    /\ result'[c].kind = "upload"
                    /\ result'[c].status = "error"
                    /\ result'[c].reason = "backend upload failed"
                    /\ objects' = objects
                    /\ nextKey' = nextKey
              /\ records' = records
              /\ quota' = quota]_vars

\* C25's case: the driver failed the write of an upload into a workspace
\* that already holds a counted file.
C25_Witness ==
    /\ result["c1"].kind = "upload"
    /\ result["c1"].status = "error"
    /\ result["c1"].reason = "backend upload failed"
    /\ drv["c1"] = 1
    /\ quota[result["c1"].ws].exists
    /\ quota[result["c1"].ws].used_files > 0

\* The download or signed-URL request answered by this step for client c
\* names row r of the service's workspace.
ReadRequestFor(c, r) ==
    /\ result'[c] # result[c]
    /\ result'[c].kind \in {"download", "signed_url"}
    /\ r.id = result'[c].arg
    /\ r.workspace_id = result'[c].ws

\* C26 (SpecExpiry).  A download or a signed-URL request for a soft-deleted
\* row is answered 404, and a download of a row that is not deleted and whose
\* expires_at is in the past is answered 410 (a row both deleted and expired:
\* 404); the step makes no driver call, writes no access-log entry and
\* changes nothing else.  A signed URL is refused only for a deleted row, and
\* a download only for a deleted or expired one.
C26_InaccessibleFilesRefusedBeforeBackend ==
    [][\A c \in clients : \A r \in records :
          ReadRequestFor(c, r) =>
             LET deleted == r.deleted_at # Null \/ r.status = "deleted"
                 expired == r.expires_at # Null /\ now > r.expires_at
                 refused == result'[c].status \in {"404", "410"}
             IN /\ deleted =>
                      /\ result'[c].status = "404"
                      /\ result'[c].reason = "File not found or has been deleted"
                /\ (~deleted /\ expired /\ result'[c].kind = "download") =>
                      /\ result'[c].status = "410"
                      /\ result'[c].reason = "File has expired"
                /\ refused <=> (deleted \/ (expired /\ result'[c].kind = "download"))
                /\ refused =>
                      /\ drv'[c] = 0
                      /\ result'[c].log = "none"
                      /\ objects' = objects
                      /\ records' = records
                      /\ quota' = quota
                /\ ~refused /\ result'[c].status = "ok" =>
                      /\ drv'[c] = 1
                      /\ result'[c].log = "written"]_vars

\* C26's case: the download of a row that is both soft-deleted and expired
\* was answered 404 with no driver call and no log entry.
C26_Witness ==
    /\ result["c1"].kind = "download"
    /\ result["c1"].status = "404"
    /\ drv["c1"] = 0
    /\ result["c1"].log = "none"
    /\ \E r \in records :
          /\ r.id = result["c1"].arg /\ r.workspace_id = result["c1"].ws
          /\ is_deleted(r)
          /\ is_expired(r, now)

\* C27 (SpecConc).  Whenever no upload is in flight, every workspace's
\* used_files is the number of uploads committed there and its
\* used_storage_bytes the sum of their sizes (both start at 0).
C27_NoIncrementLost ==
    AllIdle =>
        \A w \in Workspaces :
            /\ UsedFiles(w) = Cardinality(RecordsOf(w))
            /\ UsedBytes(w) = SumSize(RecordsOf(w))

\* C27, the part that holds: an upload that commits while the counters are
\* still what it read at its check (no other upload of the workspace has
\* committed since) adds exactly 1 and its size to them.
C27_UploadAloneIncrementsExactly ==
    [][\A c \in clients :
          (pc[c] = "up_written" /\ pc'[c] = "idle" /\ records' # records
              /\ op[c].q_files = UsedFiles(op[c].ws)
              /\ op[c].q_bytes = UsedBytes(op[c].ws)) =>
              /\ quota'[op[c].ws].used_files = UsedFiles(op[c].ws) + 1
              /\ quota'[op[c].ws].used_storage_bytes
                    = UsedBytes(op[c].ws) + op[c].size]_vars

\* C28 (SpecInterleave).  In every state every workspace's used_storage_bytes
\* and used_files are at least 0.
C28_CountersNeverNegative ==
    \A w \in Workspaces : UsedBytes(w) >= 0 /\ UsedFiles(w) >= 0

\* The quota row q with each limit that is 0 left unset.
ZeroLimitsUnset(q) ==
    [q EXCEPT !.max_storage_bytes = IF @ = 0 THEN Null ELSE @,
              !.max_files = IF @ = 0 THEN Null ELSE @,
              !.max_file_size_bytes = IF @ = 0 THEN Null ELSE @]

\* C29 (SpecLimits).  For every quota row the service reaches and every
\* file size, can_upload_file gives the verdict and reason it gives for the
\* same row with every limit of 0 replaced by null; under an enforced quota
\* a limit of 0 is never the reason of a refusal.
C29_ZeroLimitIsNoLimit ==
    \A w \in Workspaces, s \in 0..(MaxSize + 1) :
        quota[w].exists =>
            LET q == quota[w]
                v == can_upload_file(q, s)
            IN /\ v = can_upload_file(ZeroLimitsUnset(q), s)
               /\ (q.enforce_quota /\ ~v.allowed) =>
                     /\ v.reason = "File size exceeds limit"
                            => q.max_file_size_bytes > 0
                     /\ v.reason = "Storage quota exceeded"
                            => q.max_storage_bytes > 0
                     /\ v.reason = "File count limit reached"
                            => q.max_files > 0

\* C29's case: under an enforced quota whose three limits are all 0, with
\* a file of the largest size already counted, the check has let a further
\* upload through.
C29_Witness ==
    \E w \in Workspaces :
        /\ quota[w].exists /\ quota[w].enforce_quota
        /\ quota[w].max_storage_bytes = 0
        /\ quota[w].max_files = 0
        /\ quota[w].max_file_size_bytes = 0
        /\ quota[w].used_files > 0
        /\ quota[w].used_storage_bytes = MaxSize
        /\ pc["c1"] = "up_checked" /\ op["c1"].ws = w /\ op["c1"].size = MaxSize

\* The delete request answered by this step for client c named row r, which
\* was already soft-deleted, and did not remove it.
SoftDeletedAgain(c, r) ==
    /\ result'[c] # result[c]
    /\ result'[c].kind = "delete"
    /\ result'[c].status = "ok"
    /\ r.id = result'[c].arg /\ r.workspace_id = result'[c].ws
    /\ is_deleted(r)
    /\ \E x \in records' : x.id = r.id

\* C30 (SpecRetention).  A soft delete of an already soft-deleted row succeeds: the
\* row's deleted_at becomes the current time, its status stays deleted,
\* nothing else of the row, no other row, no object and no quota counter
\* changes.  A real soft-deleted collection removes a row only when the
\* deleted_at it has then, the latest one, is more than the retention ago.
C30_SoftDeleteAgainRestartsRetention ==
    [][/\ \A c \in clients : \A r \in records :
             SoftDeletedAgain(c, r) =>
                /\ records' = (records \ {r}) \cup
                                  {[r EXCEPT !.deleted_at = now, !.status = "deleted"]}
                /\ objects' = objects
                /\ quota' = quota
                /\ hist'.prev_deleted_at = r.deleted_at
       /\ (job.phase = "soft_deleted" /\ ~job.dry_run) =>
             \A r \in records :
                (\A x \in records' : x.id # r.id) =>
                    /\ r.deleted_at # Null
                    /\ now - r.deleted_at > job.soft_deleted_days * 24]_vars

\* C30's case: a row soft-deleted at hour 0 was soft-deleted again at hour
\* 1, and the real collection of hour 25 with a retention of one day has
\* completed and left the row and its object.
C30_Witness ==
    /\ hist.prev_deleted_at = 0
    /\ now = OrphanAgeHours + 1
    /\ job.phase = "done" /\ ~job.dry_run
    /\ job.cleanup_soft_deleted /\ job.soft_deleted_days = 1
    /\ job.report.soft_deleted.files_found = 0
    /\ \E r \in records :
          /\ r.deleted_at = 1 /\ r.status = "deleted"
          /\ HasObject(objects, r.file_key)

====
